---- MODULE Spec2Model ----
(***************************************************************************)
(* The playback supervisor of the TV video player (class TVVideoPlayer):   *)
(* run() resolves the latest video of the node's subfolder, downloads it   *)
(* and starts VLC on it; a daemon thread (monitor_subfolder) polls the     *)
(* subfolder, switches to a newer video and restarts a dead renderer; the  *)
(* main thread waits for Ctrl+C and then shuts down.                       *)
(*                                                                         *)
(* Two variants of the same supervisor are modelled, chosen in Init:       *)
(*   "loop"   tv_player_subfolder_V3_fixed.py / tv_player_firebase.py      *)
(*            (play_video_loop: kill every VLC process, then Popen)        *)
(*   "smooth" tv_player_subfolder_v3.py                                    *)
(*            (play_video_smooth: stop_playback on an update, then Popen)  *)
(*                                                                         *)
(* download_video is driven by the player and, in the call-sequence runs,  *)
(* by direct calls; there "trial" is tv_player_advanced_trial.py.          *)
(*                                                                         *)
(* The folder supervisors (class VideoMonitor) watch a local folder and    *)
(* play its newest video; five scripts are modelled, chosen in             *)
(* InitFolder:                                                             *)
(*   "auto"   vlc_auto_player.py     (a new VLC process for every video)   *)
(*   "rc"     vlc_auto_player_rc.py  (one VLC process, remote control)     *)
(*   "simple" vlc_simple_restart.py  (a new VLC process for every video)   *)
(*   "http"   vlc_auto_player_fixed.py (HTTP control, restart as fallback) *)
(*   "robust" vlc_robust.py          (as "simple", with a window check)    *)
(***************************************************************************)
EXTENDS Integers, Sequences, FiniteSets, TLC

\* ------------------------------------------------------------------ bounds
MaxRemoteChanges == 2   \* changes of the subfolder's latest video
MaxCrashes == 2         \* renderer deaths caused by the environment
MaxStarts == 3          \* VLC processes spawned in one run
MaxStreak == 2          \* failStreak saturates here
FlakyStarts == 2        \* starts that exit at once in the flaky-renderer runs
RestartLimit == 1       \* the run of restarts a bounded-retry supervisor would allow
FileLen == 2            \* bytes of every video file on the server
MaxCalls == 3           \* direct calls of download_video in the call-sequence runs
MaxFolderChanges == 2   \* changes of the watched folder's newest video
NameLen == 2            \* characters of a subfolder name
IpLen == 2              \* characters of an external IP
RobustInterval == 10    \* check_interval (seconds) given to vlc_robust.py

\* ------------------------------------------------------- program constants
HttpFailLimit == 3      \* if http_failed_count >= 3: (vlc_auto_player_fixed)
WindowTick == 5         \* time.sleep(5) of vlc_robust's loop
CheckInterval == 300    \* monitoring_settings.check_interval_seconds default

None == "none"
Ids == {"v1", "v2"}
Names == {"a.mp4", "b.mp4"}
Variants == {"loop", "smooth"}
FetchVariants == {"loop", "trial"}
Scripts == {"auto", "rc", "simple", "http", "robust"}
Threads == {"main", "mon"}
NoVideo == [id |-> None, name |-> None]
Absent == -1            \* a path at which os.path.exists is False
Videos == [id : Ids, name : Names]

VARIABLES
    variant,             \* which script runs
    remote,              \* files[0] of the subfolder listing, NoVideo when empty
    disk,                \* download folder: file name -> id of its content, or None
    procs,               \* VLC processes spawned so far: <<[path, alive]>>, pid = index
    current_video_id,
    current_video_name,
    current_video_path,
    vlc_process,         \* pid of the Popen handle, 0 for None
    monitoring,
    transition_lock,     \* "free" or the thread that holds it
    pc,                  \* thread -> position
    latest,              \* thread -> latest_video / latest (local)
    video_path,          \* thread -> video_path (local / argument)
    site,                \* thread -> call site of play_video_*: run, update, restart
    delay,               \* seconds of the monitor's sleep before the coming poll
    lastPoll,            \* outcome of the monitor's last listing: none, failed, empty, ok
    failStreak,          \* consecutive failed listings of the monitor (saturating)
    observedIds,         \* ids seen by the initial resolution and the polls
    lastSeen,            \* the id seen by the latest successful resolution
    idChanges,           \* successful resolutions whose id differed from the one before
    remoteChanges,       \* environment: changes of remote so far
    crashes,             \* environment: renderer deaths so far
    dieBudget,           \* environment: coming starts that exit at once
    faults,              \* environment: whether listings, downloads and starts may fail
    restartsInRow,       \* crash restarts since the last start of a new video
    tmp,                 \* file name -> bytes in <name>.tmp, Absent when it does not exist
    size,                \* file name -> bytes in the file at the final path
    total_size,          \* thread -> total_size (local): declared content-length, 0 for none
    driver,              \* who calls download_video: "player" (run, monitor) or "calls"
    fetchLog,            \* call-sequence runs: <<[v, ret, sent]>> of the calls that returned
    script,              \* folder supervisor: which script runs
    folder,              \* folder supervisor: newest video file of the folder, or None
    current_video,       \* folder supervisor: VideoMonitor.current_video
    lastScan,            \* folder supervisor: outcome of the last folder scan
    folderChanges,       \* environment: changes of folder so far
    lastStop,            \* folder supervisor: what the last stop_vlc call sent
    initialized,         \* FirebaseStatusReporter.initialized
    hb,                  \* position of the heartbeat thread
    published,           \* the status of the heartbeat's last publication
    http_working,        \* vlc_auto_player_fixed: http_working (local)
    http_failed_count,   \* vlc_auto_player_fixed: http_failed_count (local)
    check_counter,       \* vlc_robust: check_counter (local)
    window,              \* vlc_robust: show state of the VLC window
    lastWindow,          \* vlc_robust: outcome of the last window check
    responses,           \* IP service -> what a request to it gives
    hostLookup,          \* what socket.gethostbyname does: ok, raise
    service,             \* get_external_ip: index of the next fallback service
    requested,           \* the IP services requested so far, in order
    external_ip,         \* self.external_ip, a sequence of characters
    ip_result,           \* what get_external_ip returned
    subfolders,          \* what list_subfolders returned (a list of folders)
    my_subfolder         \* what find_my_subfolder returned

vars == <<variant, remote, disk, procs, current_video_id, current_video_name,
          current_video_path, vlc_process, monitoring, transition_lock, pc,
          latest, video_path, site, delay, lastPoll, failStreak, observedIds,
          lastSeen, idChanges, remoteChanges, crashes, dieBudget, faults,
          restartsInRow, tmp, size, total_size, driver, fetchLog,
          script, folder, current_video, lastScan, folderChanges, lastStop,
          initialized, hb, published, http_working, http_failed_count,
          check_counter, window, lastWindow, responses, hostLookup, service,
          requested, external_ip, ip_result, subfolders, my_subfolder>>

playerVars == <<current_video_id, current_video_name, current_video_path,
                vlc_process>>
envVars == <<remote, remoteChanges, crashes, faults>>
pollVars == <<delay, lastPoll, failStreak>>
seenVars == <<observedIds, lastSeen, idChanges>>
tempVars == <<tmp, size, total_size>>
callVars == <<driver, fetchLog>>
folderVars == <<script, folder, current_video, lastScan, folderChanges,
                lastStop>>
statusVars == <<initialized, hb, published>>
httpVars == <<http_working, http_failed_count>>
robustVars == <<check_counter, window, lastWindow>>
identVars == <<responses, hostLookup, service, requested, external_ip,
               ip_result, subfolders, my_subfolder>>

\* ----------------------------------------------------------------- helpers
Min(a, b) == IF a < b THEN a ELSE b

AlivePids == {i \in DOMAIN procs : procs[i].alive}

\* is_vlc_running: vlc_process and vlc_process.poll() is None
IsVlcRunning == vlc_process # 0 /\ procs[vlc_process].alive

\* kill_all_vlc_processes: proc.kill() for every process named vlc
KillAll(ps) == [i \in DOMAIN ps |-> [ps[i] EXCEPT !.alive = FALSE]]

StopPlaybackSkipped(ps) == ps

\* stop_playback: terminate, then kill if still alive; nothing for a dead handle
StopPlayback(ps) ==
    IF vlc_process # 0 /\ ps[vlc_process].alive
    THEN [ps EXCEPT ![vlc_process].alive = FALSE]
    ELSE ps

\* what play_video_loop / play_video_smooth does to the old renderer before Popen
StopOld(ps, isUpdate) ==
    IF variant = "loop" THEN KillAll(ps)
    ELSE IF isUpdate /\ vlc_process # 0 THEN StopPlayback(ps)
    ELSE ps

IsNewVideoByName(v) == v.name # current_video_name

\* latest_video['id'] != self.current_video_id
IsNewVideo(v) == v.id # current_video_id

NextDelayHalved == IF lastPoll = "failed" THEN delay \div 2 ELSE CheckInterval

\* time.sleep(check_interval) at the top of every iteration
NextDelay == CheckInterval

\* requests.get of the listing: status 200, or another status / an exception
ListOutcomes == IF faults THEN {"ok", "error"} ELSE {"ok"}

\* requests.get of the file: status 200, or another status / an exception
GetOutcomes == IF faults THEN {"200", "refused"} ELSE {"200"}

\* response.headers.get('content-length', 0): the file's length, or none
DeclaredLens == {0, FileLen}

\* iter_content: every byte, a clean end before the last byte, an exception
StreamOutcomes == IF faults THEN {"full", "short", "error"} ELSE {"full"}

\* os.remove / os.rename: done, or an OSError from either
RenameOutcomes ==
    IF faults THEN {"ok", "remove_error", "rename_error"} ELSE {"ok"}

\* find_vlc: a path, or None
VlcLookups == IF faults THEN {"found", "missing"} ELSE {"found"}

\* subprocess.Popen: a process, or an OSError
SpawnOutcomes == IF faults THEN {"ok", "oserror"} ELSE {"ok"}

\* where a thread goes when play_video_* returns ok
AfterPlay(t, ok) ==
    CASE site[t] = "run" -> IF ok THEN "start_monitor" ELSE "exited"
      [] site[t] = "update" -> "check"
      [] OTHER -> "loop"

\* a successful listing that names a latest video is an observation of its id
Observe(v) ==
    /\ observedIds' = observedIds \cup {v.id}
    /\ lastSeen' = v.id
    /\ idChanges' = IF v.id # lastSeen THEN idChanges + 1 ELSE idChanges

\* --------------------------------------------- folder supervisor: helpers
\* Path.iterdir(): the folder's entries, or an exception
ScanOutcomes == IF faults THEN {"ok", "error"} ELSE {"ok"}

\* get_latest_video: get_video_files catches the exception of iterdir and
\* returns the list it has, here the empty one, so the result is None
GetLatestVideo(scan) == IF scan = "error" THEN None ELSE folder

\* x.stat().st_mtime, the sort key of get_latest_video: a time, or an OSError
\* (the file is gone since iterdir listed it)
StatOutcomes == IF faults THEN {"ok", "raise"} ELSE {"ok"}

\* stop_vlc: terminate, wait, kill on timeout; for a running handle only
StopVlc(ps) ==
    IF vlc_process # 0 /\ ps[vlc_process].alive
    THEN [ps EXCEPT ![vlc_process].alive = FALSE]
    ELSE ps

HandleAfterStopClearsAny == IF vlc_process # 0 THEN 0 ELSE vlc_process

\* the handle after stop_vlc: vlc_auto_player sets None inside the "if" that
\* found a running process, vlc_simple_restart and vlc_robust set None in
\* every call
HandleAfterStop ==
    IF script \in {"simple", "robust"} \/ IsVlcRunning THEN 0 ELSE vlc_process

\* a stop_vlc call that found nothing to stop
NoStop == [pid |-> 0, signals |-> << >>, inGrace |-> TRUE]

StopSignalsKillOnly(inGrace) == <<"kill">>

\* the signals stop_vlc sends to a running process: terminate(), then
\* wait(timeout=2); kill() when the wait timed out
StopSignals(inGrace) ==
    IF inGrace THEN <<"terminate">> ELSE <<"terminate", "kill">>

\* one call of stop_vlc, as seen by the process: it exits within the grace
\* period of the wait, or it does not
StopVlcSends ==
    \E inGrace \in BOOLEAN :
       /\ ~IsVlcRunning => inGrace
       /\ lastStop' = IF IsVlcRunning
                      THEN [pid |-> vlc_process,
                            signals |-> StopSignals(inGrace),
                            inGrace |-> inGrace]
                      ELSE NoStop

\* the HTTP interface answers the connection test of start_vlc_with_http
\* within its ten tries, or it does not
ConnectOutcomes == IF faults THEN {"ok", "error"} ELSE {"ok"}

\* switch_video_http: the commands are accepted; a command is answered with
\* an error or not at all (send_command returns False, the switch still
\* counts as done); video_path.stat() raises (the switch returns False)
HttpSwitchOutcomes == IF faults THEN {"ok", "rejected", "raise"} ELSE {"ok"}

FallbackDueAtOnce(count) == count >= 1

\* if http_failed_count >= 3: fall back to the restart method
FallbackDue(count) == count >= HttpFailLimit

\* check_and_restore_window: find_vlc_window gives a handle, gives None, or
\* a call of the window API raises
WindowOutcomes == {"found", "missing", "raise"}

\* if check_counter * 5 < self.check_interval: continue
PollDue(counter) == ~(counter * WindowTick < RobustInterval)

\* what the VLC process of the handle shows (rc: its playlist)
Showing(ps, v) == [ps EXCEPT ![vlc_process].path = v]

\* ------------------------------------------------- status sink: helpers
\* nothing published by the heartbeat yet
NoStatus == [status |-> None, video_name |-> None, video_path |-> None,
             sent |-> None]

\* firebase_admin.initialize_app / db.reference: done, or an exception
SinkInits == {TRUE, FALSE}

\* db_ref.update(status_data) in send_status: done, or an exception
SinkOutcomes == {"ok", "error"}

\* the status the heartbeat hands to send_status: report_playing(
\* current_video_name, current_video_path) when current_video_path is set,
\* report_idle() otherwise; the two attributes are read without a lock
HeartbeatStatus(out) ==
    IF current_video_path # None
    THEN [status |-> "playing", video_name |-> current_video_name,
          video_path |-> current_video_path, sent |-> out]
    ELSE [status |-> "idle", video_name |-> None, video_path |-> None,
          sent |-> out]

\* ----------------------------------------------------- identity of the TV
\* the primary IP service and fallback_services, in the listed order
IpServices == <<"api.ipify.org", "ifconfig.me/ip", "icanhazip.com",
                "checkip.amazonaws.com">>

\* characters of a response body and of a folder name; of an IP
Chars == {"1", "2", " "}
IpChars == {"1", "2"}

\* the sequences over S of at most n elements
SeqsUpTo(S, n) == UNION {[1..k -> S] : k \in 0..n}

\* None as the value of self.external_ip and as a returned IP
NoIp == <<"None">>

\* requests.get raised
Raised == [raised |-> TRUE, status_code |-> 0, text |-> << >>]

\* what requests.get of an IP service gives: an exception, or a response
\* with a status code and a body
Bodies == {<< >>, <<"1">>, <<"2", " ">>}
Responses ==
    {Raised} \cup [raised : {FALSE}, status_code : {200, 503}, text : Bodies]

\* str.strip()
RECURSIVE Strip(_)
Strip(str) ==
    IF str = << >> THEN str
    ELSE IF Head(str) = " " THEN Strip(Tail(str))
    ELSE IF str[Len(str)] = " " THEN Strip(SubSeq(str, 1, Len(str) - 1))
    ELSE str

\* sub in str
Contains(sub, str) ==
    \E i \in 0..(Len(str) - Len(sub)) : SubSeq(str, i + 1, i + Len(sub)) = sub

\* a fallback loop that takes the body of any answer
FallbackAnswersAnyStatus(r) == ~r.raised

\* if response.status_code == 200: of the fallback loop
FallbackAnswers(r) == ~r.raised /\ r.status_code = 200

\* the subfolders of the main folder: files(id, name) of the Drive listing,
\* None as the result of find_my_subfolder
FolderIds == <<"f1", "f2">>
FolderNames == SeqsUpTo(Chars, NameLen)
FolderLists ==
    UNION {{[i \in 1..k |-> [id |-> FolderIds[i], name |-> names[i]]] :
              names \in [1..k -> FolderNames]} : k \in 0..Len(FolderIds)}
ExternalIps == SeqsUpTo(IpChars, IpLen) \ {<< >>}
NoFolder == [id |-> None, name |-> << >>]

\* a search that returns a folder named exactly as the IP before any
\* partial match
RECURSIVE FindFromV3ExactFirst(_, _, _)
FindFromV3ExactFirst(folders, ip, i) ==
    IF \E j \in 1..Len(folders) : Strip(folders[j].name) = ip
    THEN folders[CHOOSE j \in 1..Len(folders) :
                    /\ Strip(folders[j].name) = ip
                    /\ \A k \in 1..(j - 1) : Strip(folders[k].name) # ip]
    ELSE IF i > Len(folders) THEN NoFolder
    ELSE LET folder_name == Strip(folders[i].name) IN
         IF Contains(ip, folder_name) THEN folders[i]
         ELSE IF Contains(folder_name, ip) THEN folders[i]
         ELSE FindFromV3ExactFirst(folders, ip, i + 1)

\* tv_player_subfolder_v3.find_my_subfolder: the loop from folder i on, with
\* the three tests of a folder one after another
RECURSIVE FindFromV3(_, _, _)
FindFromV3(folders, ip, i) ==
    IF i > Len(folders) THEN NoFolder
    ELSE LET folder_name == Strip(folders[i].name) IN
         IF folder_name = ip THEN folders[i]
         ELSE IF Contains(ip, folder_name) THEN folders[i]
         ELSE IF Contains(folder_name, ip) THEN folders[i]
         ELSE FindFromV3(folders, ip, i + 1)

FindMySubfolderV3(folders, ip) ==
    IF folders = << >> THEN NoFolder ELSE FindFromV3(folders, ip, 1)

\* tv_player_subfolder_V3_fixed.find_my_subfolder: one test of a folder
RECURSIVE FindFromFixed(_, _, _)
FindFromFixed(folders, ip, i) ==
    IF i > Len(folders) THEN NoFolder
    ELSE LET folder_name == Strip(folders[i].name) IN
         IF folder_name = ip \/ Contains(ip, folder_name)
            \/ Contains(folder_name, ip)
         THEN folders[i]
         ELSE FindFromFixed(folders, ip, i + 1)

FindMySubfolderFixed(folders, ip) ==
    IF folders = << >> THEN NoFolder ELSE FindFromFixed(folders, ip, 1)

\* the player after run() resolved its identity: the primary service
\* answered, the subfolder named as the IP was found
IdentityResolved ==
    /\ responses = [i \in 1..Len(IpServices) |->
                      IF i = 1
                      THEN [raised |-> FALSE, status_code |-> 200,
                            text |-> <<"1">>]
                      ELSE Raised]
    /\ hostLookup = "ok"
    /\ service = 1
    /\ requested = <<IpServices[1]>>
    /\ external_ip = <<"1">>
    /\ ip_result = <<"1">>
    /\ subfolders = <<[id |-> FolderIds[1], name |-> <<"1">>]>>
    /\ my_subfolder = [id |-> FolderIds[1], name |-> <<"1">>]

\* --------------------------------------------------------------------- Init
InitCommon ==
    /\ variant \in Variants
    /\ remote \in Videos \cup {NoVideo}
    /\ disk = [n \in Names |-> None]
    /\ procs = << >>
    /\ current_video_id = None
    /\ current_video_name = None
    /\ current_video_path = None
    /\ vlc_process = 0
    /\ monitoring = TRUE
    /\ transition_lock = "free"
    /\ pc = [t \in Threads |-> IF t = "main" THEN "r_list" ELSE "idle"]
    /\ latest = [t \in Threads |-> NoVideo]
    /\ video_path = [t \in Threads |-> None]
    /\ site = [t \in Threads |-> None]
    /\ delay = 0
    /\ lastPoll = "none"
    /\ failStreak = 0
    /\ observedIds = {}
    /\ lastSeen = None
    /\ idChanges = 0
    /\ remoteChanges = 0
    /\ crashes = 0
    /\ restartsInRow = 0
    /\ tmp = [n \in Names |-> Absent]
    /\ size = [n \in Names |-> 0]
    /\ total_size = [t \in Threads |-> 0]
    /\ driver = "player"
    /\ fetchLog = << >>
    /\ script = None
    /\ folder = None
    /\ current_video = None
    /\ lastScan = "none"
    /\ folderChanges = 0
    /\ lastStop = NoStop
    /\ initialized = FALSE
    /\ hb = "off"
    /\ published = NoStatus
    /\ http_working = FALSE
    /\ http_failed_count = 0
    /\ check_counter = 0
    /\ window = "normal"
    /\ lastWindow = "none"
    /\ IdentityResolved

Init == InitCommon /\ dieBudget = 0 /\ faults = TRUE

\* the renderer that exits at once on its first FlakyStarts starts, a healthy
\* network and a subfolder whose latest video stays the same
InitFlaky ==
    /\ InitCommon
    /\ remote # NoVideo
    /\ dieBudget \in 0..FlakyStarts
    /\ faults = FALSE

\* the call-sequence runs: download_video called directly, one call after
\* another with any file_info, on a fresh TVVideoPlayer; "trial" is
\* tv_player_advanced_trial.py, whose download_video writes the final path
InitCalls ==
    /\ variant \in FetchVariants
    /\ remote = NoVideo
    /\ disk = [n \in Names |-> None]
    /\ procs = << >>
    /\ current_video_id = None
    /\ current_video_name = None
    /\ current_video_path = None
    /\ vlc_process = 0
    /\ monitoring = TRUE
    /\ transition_lock = "free"
    /\ pc = [t \in Threads |-> IF t = "main" THEN "f_call" ELSE "idle"]
    /\ latest = [t \in Threads |-> NoVideo]
    /\ video_path = [t \in Threads |-> None]
    /\ site = [t \in Threads |-> None]
    /\ delay = 0
    /\ lastPoll = "none"
    /\ failStreak = 0
    /\ observedIds = {}
    /\ lastSeen = None
    /\ idChanges = 0
    /\ remoteChanges = 0
    /\ crashes = 0
    /\ restartsInRow = 0
    /\ tmp = [n \in Names |-> Absent]
    /\ size = [n \in Names |-> 0]
    /\ total_size = [t \in Threads |-> 0]
    /\ driver = "calls"
    /\ fetchLog = << >>
    /\ dieBudget = 0
    /\ faults = TRUE
    /\ script = None
    /\ folder = None
    /\ current_video = None
    /\ lastScan = "none"
    /\ folderChanges = 0
    /\ lastStop = NoStop
    /\ initialized = FALSE
    /\ hb = "off"
    /\ published = NoStatus
    /\ http_working = FALSE
    /\ http_failed_count = 0
    /\ check_counter = 0
    /\ window = "normal"
    /\ lastWindow = "none"
    /\ IdentityResolved

\* tv_player_subfolder_V3_fixed.py at the start of run(), with any behaviour
\* of the name lookup and of the four IP services
InitIdentity ==
    /\ variant = "loop"
    /\ remote = NoVideo
    /\ disk = [n \in Names |-> None]
    /\ procs = << >>
    /\ current_video_id = None
    /\ current_video_name = None
    /\ current_video_path = None
    /\ vlc_process = 0
    /\ monitoring = TRUE
    /\ transition_lock = "free"
    /\ pc = [t \in Threads |-> IF t = "main" THEN "r_ip" ELSE "idle"]
    /\ latest = [t \in Threads |-> NoVideo]
    /\ video_path = [t \in Threads |-> None]
    /\ site = [t \in Threads |-> None]
    /\ delay = 0
    /\ lastPoll = "none"
    /\ failStreak = 0
    /\ observedIds = {}
    /\ lastSeen = None
    /\ idChanges = 0
    /\ remoteChanges = 0
    /\ crashes = 0
    /\ restartsInRow = 0
    /\ tmp = [n \in Names |-> Absent]
    /\ size = [n \in Names |-> 0]
    /\ total_size = [t \in Threads |-> 0]
    /\ driver = "player"
    /\ fetchLog = << >>
    /\ dieBudget = 0
    /\ faults = TRUE
    /\ script = None
    /\ folder = None
    /\ current_video = None
    /\ lastScan = "none"
    /\ folderChanges = 0
    /\ lastStop = NoStop
    /\ initialized = FALSE
    /\ hb = "off"
    /\ published = NoStatus
    /\ http_working = FALSE
    /\ http_failed_count = 0
    /\ check_counter = 0
    /\ window = "normal"
    /\ lastWindow = "none"
    /\ responses \in [1..Len(IpServices) -> Responses]
    /\ hostLookup \in {"ok", "raise"}
    /\ service = 1
    /\ requested = << >>
    /\ external_ip = NoIp
    /\ ip_result = NoIp
    /\ subfolders = << >>
    /\ my_subfolder = NoFolder

\* run() of tv_player_subfolder_v3.py and of tv_player_subfolder_V3_fixed.py
\* after list_subfolders returned a list, with any external IP
InitFind ==
    /\ variant \in Variants
    /\ remote = NoVideo
    /\ disk = [n \in Names |-> None]
    /\ procs = << >>
    /\ current_video_id = None
    /\ current_video_name = None
    /\ current_video_path = None
    /\ vlc_process = 0
    /\ monitoring = TRUE
    /\ transition_lock = "free"
    /\ pc = [t \in Threads |-> IF t = "main" THEN "r_find" ELSE "idle"]
    /\ latest = [t \in Threads |-> NoVideo]
    /\ video_path = [t \in Threads |-> None]
    /\ site = [t \in Threads |-> None]
    /\ delay = 0
    /\ lastPoll = "none"
    /\ failStreak = 0
    /\ observedIds = {}
    /\ lastSeen = None
    /\ idChanges = 0
    /\ remoteChanges = 0
    /\ crashes = 0
    /\ restartsInRow = 0
    /\ tmp = [n \in Names |-> Absent]
    /\ size = [n \in Names |-> 0]
    /\ total_size = [t \in Threads |-> 0]
    /\ driver = "player"
    /\ fetchLog = << >>
    /\ dieBudget = 0
    /\ faults = TRUE
    /\ script = None
    /\ folder = None
    /\ current_video = None
    /\ lastScan = "none"
    /\ folderChanges = 0
    /\ lastStop = NoStop
    /\ initialized = FALSE
    /\ hb = "off"
    /\ published = NoStatus
    /\ http_working = FALSE
    /\ http_failed_count = 0
    /\ check_counter = 0
    /\ window = "normal"
    /\ lastWindow = "none"
    /\ responses = [i \in 1..Len(IpServices) |-> Raised]
    /\ hostLookup = "ok"
    /\ service = 1
    /\ requested = << >>
    /\ external_ip \in ExternalIps
    /\ ip_result = external_ip
    /\ subfolders \in FolderLists
    /\ my_subfolder = NoFolder

\* the folder supervisor after VideoMonitor.__init__, with any folder content
InitFolder ==
    /\ script \in Scripts
    /\ folder \in Names \cup {None}
    /\ current_video = None
    /\ lastScan = "none"
    /\ folderChanges = 0
    /\ lastStop = NoStop
    /\ initialized = FALSE
    /\ hb = "off"
    /\ published = NoStatus
    /\ http_working = FALSE
    /\ http_failed_count = 0
    /\ check_counter = 0
    /\ window = "normal"
    /\ lastWindow = "none"
    /\ IdentityResolved
    /\ vlc_process = 0
    /\ procs = << >>
    /\ pc = [t \in Threads |-> IF t = "main" THEN "m_start" ELSE "idle"]
    /\ crashes = 0
    /\ dieBudget = 0
    /\ faults = TRUE
    /\ variant = "loop"
    /\ remote = NoVideo
    /\ disk = [n \in Names |-> None]
    /\ current_video_id = None
    /\ current_video_name = None
    /\ current_video_path = None
    /\ monitoring = TRUE
    /\ transition_lock = "free"
    /\ latest = [t \in Threads |-> NoVideo]
    /\ video_path = [t \in Threads |-> None]
    /\ site = [t \in Threads |-> None]
    /\ delay = 0
    /\ lastPoll = "none"
    /\ failStreak = 0
    /\ observedIds = {}
    /\ lastSeen = None
    /\ idChanges = 0
    /\ remoteChanges = 0
    /\ restartsInRow = 0
    /\ tmp = [n \in Names |-> Absent]
    /\ size = [n \in Names |-> 0]
    /\ total_size = [t \in Threads |-> 0]
    /\ driver = "player"
    /\ fetchLog = << >>

\* tv_player_firebase.py after get_external_ip created the status reporter,
\* whose initialization succeeded or failed
InitStatus ==
    /\ variant = "loop"
    /\ initialized \in SinkInits
    /\ hb = "off"
    /\ published = NoStatus
    /\ http_working = FALSE
    /\ http_failed_count = 0
    /\ check_counter = 0
    /\ window = "normal"
    /\ lastWindow = "none"
    /\ IdentityResolved
    /\ remote \in Videos \cup {NoVideo}
    /\ disk = [n \in Names |-> None]
    /\ procs = << >>
    /\ current_video_id = None
    /\ current_video_name = None
    /\ current_video_path = None
    /\ vlc_process = 0
    /\ monitoring = TRUE
    /\ transition_lock = "free"
    /\ pc = [t \in Threads |-> IF t = "main" THEN "r_sink" ELSE "idle"]
    /\ latest = [t \in Threads |-> NoVideo]
    /\ video_path = [t \in Threads |-> None]
    /\ site = [t \in Threads |-> None]
    /\ delay = 0
    /\ lastPoll = "none"
    /\ failStreak = 0
    /\ observedIds = {}
    /\ lastSeen = None
    /\ idChanges = 0
    /\ remoteChanges = 0
    /\ crashes = 0
    /\ restartsInRow = 0
    /\ tmp = [n \in Names |-> Absent]
    /\ size = [n \in Names |-> 0]
    /\ total_size = [t \in Threads |-> 0]
    /\ driver = "player"
    /\ fetchLog = << >>
    /\ dieBudget = 0
    /\ faults = FALSE
    /\ script = None
    /\ folder = None
    /\ current_video = None
    /\ lastScan = "none"
    /\ folderChanges = 0
    /\ lastStop = NoStop

\* ------------------------------------------------------------ shared steps
\* download_video returns ret (a path, or None) to its caller, having issued
\* sent requests (requests.get is called once, after the "already
\* downloaded" test)
DownloadReturn(t, ret, sent) ==
    IF driver = "calls"
    THEN /\ fetchLog' = Append(fetchLog, [v |-> latest[t], ret |-> ret,
                                          sent |-> sent])
         /\ latest' = [latest EXCEPT ![t] = NoVideo]
         /\ pc' = [pc EXCEPT ![t] = "f_call"]
         /\ UNCHANGED <<video_path, site>>
    ELSE /\ IF ret # None
            THEN \* if video_path: self.play_video_*(video_path, ...)
                 /\ video_path' = [video_path EXCEPT ![t] = ret]
                 /\ site' = [site EXCEPT ![t] = IF t = "main" THEN "run" ELSE "update"]
                 /\ pc' = [pc EXCEPT ![t] = "play_lock"]
            ELSE \* run() returns; the monitor goes on to its restart check
                 /\ pc' = [pc EXCEPT ![t] = IF t = "main" THEN "exited" ELSE "check"]
                 /\ UNCHANGED <<video_path, site>>
         /\ UNCHANGED <<latest, fetchLog>>

DownloadVideoAlwaysFetches(t) ==
    LET f == latest[t]
        dest == f.name
    IN  /\ total_size' = [total_size EXCEPT ![t] = FileLen]
        /\ tmp' = [tmp EXCEPT ![dest] = 0]
        /\ pc' = [pc EXCEPT ![t] = "dl_stream"]
        /\ UNCHANGED <<disk, size, current_video_id, current_video_name,
                       video_path, site, latest, fetchLog>>

DownloadVideoIdFirst(t) ==
    LET f == latest[t]
        dest == f.name
    IN  IF disk[dest] # None /\ current_video_id = f.id
        THEN /\ UNCHANGED <<disk, tempVars, current_video_id, current_video_name>>
             /\ DownloadReturn(t, dest, 0)
        ELSE /\ total_size' = [total_size EXCEPT ![t] = FileLen]
             /\ tmp' = [tmp EXCEPT ![dest] = 0]
             /\ current_video_id' = f.id
             /\ pc' = [pc EXCEPT ![t] = "dl_stream"]
             /\ UNCHANGED <<disk, size, current_video_name, video_path, site,
                            latest, fetchLog>>

\* download_video(file_info), called by thread t with file_info = latest[t]:
\* the "already downloaded" test, requests.get(url, stream=True), and the
\* open(..., 'wb') of the file the chunks go to
DownloadVideo(t) ==
    LET f == latest[t]
        dest == f.name
    IN  IF disk[dest] # None /\ current_video_id = f.id
        THEN \* "Video already downloaded": return destination_path, no request
             /\ UNCHANGED <<disk, tempVars, current_video_id, current_video_name>>
             /\ DownloadReturn(t, dest, 0)
        ELSE /\ \E out \in GetOutcomes :
                  IF out = "200"
                  THEN /\ \E len \in DeclaredLens :
                            total_size' = [total_size EXCEPT ![t] = len]
                       /\ IF variant = "trial"
                          THEN \* open(destination_path, 'wb')
                               /\ disk' = [disk EXCEPT ![dest] = f.id]
                               /\ size' = [size EXCEPT ![dest] = 0]
                               /\ UNCHANGED tmp
                          ELSE \* open(destination_path + ".tmp", 'wb')
                               /\ tmp' = [tmp EXCEPT ![dest] = 0]
                               /\ UNCHANGED <<disk, size>>
                       /\ pc' = [pc EXCEPT ![t] = "dl_stream"]
                       /\ UNCHANGED <<current_video_id, current_video_name,
                                      video_path, site, latest, fetchLog>>
                  ELSE \* a status other than 200, or requests.get raises
                       /\ UNCHANGED <<disk, tmp, size, total_size,
                                      current_video_id, current_video_name>>
                       /\ DownloadReturn(t, None, 1)

\* for chunk in response.iter_content(...): f.write(chunk)
\* the stream delivers every byte, ends early without an error (only a
\* declared length can show that), or raises (network or storage error)
DownloadStream(t) ==
    LET f == latest[t]
        dest == f.name
    IN  /\ pc[t] = "dl_stream"
        /\ \E out \in StreamOutcomes, part \in 1..(FileLen - 1) :
             LET written == IF out = "full" THEN FileLen ELSE part IN
             /\ out = "full" => part = 1
             /\ out = "short" => total_size[t] > 0
             /\ IF variant = "trial"
                THEN /\ size' = [size EXCEPT ![dest] = written]
                     /\ UNCHANGED <<disk, tmp>>
                     /\ IF out = "error"
                        THEN /\ UNCHANGED <<current_video_id, current_video_name>>
                             /\ total_size' = [total_size EXCEPT ![t] = 0]
                             /\ DownloadReturn(t, None, 1)
                        ELSE \* self.current_video_id = file_id; return
                             /\ current_video_id' = f.id
                             /\ UNCHANGED current_video_name
                             /\ total_size' = [total_size EXCEPT ![t] = 0]
                             /\ DownloadReturn(t, dest, 1)
                ELSE /\ tmp' = [tmp EXCEPT ![dest] = written]
                     /\ UNCHANGED <<disk, size, current_video_id,
                                    current_video_name>>
                     /\ IF out = "error"
                        THEN \* except Exception: return None
                             /\ total_size' = [total_size EXCEPT ![t] = 0]
                             /\ DownloadReturn(t, None, 1)
                        ELSE /\ pc' = [pc EXCEPT ![t] = "dl_rename"]
                             /\ UNCHANGED <<total_size, video_path, site,
                                            latest, fetchLog>>
        /\ UNCHANGED <<variant, identVars, robustVars, statusVars, httpVars, folderVars, procs, current_video_path, vlc_process,
                       monitoring, transition_lock, envVars, pollVars, seenVars,
                       dieBudget, restartsInRow, driver>>

\* if os.path.exists(destination_path): os.remove(destination_path)
\* os.rename(temp_path, destination_path)
\* self.current_video_id = file_id; self.current_video_name = filename
DownloadRename(t) ==
    LET f == latest[t]
        dest == f.name
    IN  /\ pc[t] = "dl_rename"
        /\ \E out \in RenameOutcomes :
             /\ out = "remove_error" => disk[dest] # None
             /\ IF out = "ok"
                THEN /\ disk' = [disk EXCEPT ![dest] = f.id]
                     /\ size' = [size EXCEPT ![dest] = tmp[dest]]
                     /\ tmp' = [tmp EXCEPT ![dest] = Absent]
                     /\ current_video_id' = f.id
                     /\ current_video_name' = f.name
                ELSE IF out = "rename_error"
                THEN \* the old file is removed, the rename raises
                     /\ disk' = [disk EXCEPT ![dest] = None]
                     /\ size' = [size EXCEPT ![dest] = 0]
                     /\ UNCHANGED <<tmp, current_video_id, current_video_name>>
                ELSE \* os.remove raises (the file is in use)
                     UNCHANGED <<disk, size, tmp, current_video_id,
                                 current_video_name>>
             /\ total_size' = [total_size EXCEPT ![t] = 0]
             /\ DownloadReturn(t, IF out = "ok" THEN dest ELSE None, 1)
        /\ UNCHANGED <<variant, identVars, robustVars, statusVars, httpVars, folderVars, procs, current_video_path, vlc_process,
                       monitoring, transition_lock, envVars, pollVars, seenVars,
                       dieBudget, restartsInRow, driver>>

AcquireNoLock(t) ==
    /\ pc[t] = "play_lock"
    /\ pc' = [pc EXCEPT ![t] = "play_check"]
    /\ UNCHANGED <<variant, identVars, robustVars, statusVars, httpVars, folderVars, tempVars, callVars, disk, procs, playerVars, monitoring, transition_lock,
                   latest, video_path, site, envVars, pollVars, seenVars,
                   dieBudget, restartsInRow>>

\* with self.transition_lock: (entry of play_video_loop / play_video_smooth)
AcquireLock(t) ==
    /\ pc[t] = "play_lock"
    /\ transition_lock = "free"
    /\ transition_lock' = t
    /\ pc' = [pc EXCEPT ![t] = "play_check"]
    /\ UNCHANGED <<variant, identVars, robustVars, statusVars, httpVars, folderVars, tempVars, callVars, disk, procs, playerVars, monitoring, latest,
                   video_path, site, envVars, pollVars, seenVars, dieBudget,
                   restartsInRow>>

\* find_vlc, os.path.exists(video_path), then the old renderer is stopped
PlayCheck(t) ==
    /\ pc[t] = "play_check"
    /\ \E vlc \in VlcLookups :
         IF vlc = "missing" \/ disk[video_path[t]] = None
         THEN \* return False; the with block releases the lock
              /\ transition_lock' = "free"
              /\ pc' = [pc EXCEPT ![t] = AfterPlay(t, FALSE)]
              /\ video_path' = [video_path EXCEPT ![t] = None]
              /\ site' = [site EXCEPT ![t] = None]
              /\ latest' = [latest EXCEPT ![t] = NoVideo]
              /\ UNCHANGED procs
         ELSE /\ procs' = StopOld(procs, site[t] = "update")
              /\ pc' = [pc EXCEPT ![t] = "play_spawn"]
              /\ UNCHANGED <<transition_lock, video_path, site, latest>>
    /\ UNCHANGED <<variant, identVars, robustVars, statusVars, httpVars, folderVars, tempVars, callVars, disk, playerVars, monitoring, envVars, pollVars,
                   seenVars, dieBudget, restartsInRow>>

\* subprocess.Popen(cmd); self.current_video_path = video_path; return True
\* or Popen raises: except Exception: return False
PlaySpawn(t) ==
    /\ pc[t] = "play_spawn"
    /\ \E out \in SpawnOutcomes :
         /\ IF out = "ok"
            THEN /\ Len(procs) < MaxStarts
                 /\ procs' = Append(procs, [path |-> video_path[t],
                                            alive |-> dieBudget = 0])
                 /\ dieBudget' = IF dieBudget > 0 THEN dieBudget - 1 ELSE 0
                 /\ vlc_process' = Len(procs) + 1
                 /\ current_video_path' = video_path[t]
                 /\ restartsInRow' = IF site[t] = "restart"
                                     THEN restartsInRow + 1 ELSE 0
            ELSE UNCHANGED <<procs, dieBudget, vlc_process, current_video_path,
                             restartsInRow>>
         /\ pc' = [pc EXCEPT ![t] = AfterPlay(t, out = "ok")]
    /\ transition_lock' = "free"
    /\ video_path' = [video_path EXCEPT ![t] = None]
    /\ site' = [site EXCEPT ![t] = None]
    /\ latest' = [latest EXCEPT ![t] = NoVideo]
    /\ UNCHANGED <<variant, identVars, robustVars, statusVars, httpVars, folderVars, tempVars, callVars, disk, current_video_id, current_video_name,
                   monitoring, envVars, pollVars, seenVars>>

\* the caller of the call-sequence runs: self.download_video(file_info)
Call ==
    /\ pc["main"] = "f_call"
    /\ Len(fetchLog) < MaxCalls
    /\ \E v \in Videos : latest' = [latest EXCEPT !["main"] = v]
    /\ pc' = [pc EXCEPT !["main"] = "r_download"]
    /\ UNCHANGED <<variant, identVars, robustVars, statusVars, httpVars, folderVars, tempVars, disk, procs, playerVars, monitoring,
                   transition_lock, video_path, site, envVars, pollVars,
                   seenVars, dieBudget, restartsInRow, driver, fetchLog>>

\* ------------------------------------------------------- main thread: run()
\* [5/6] files = list_videos_in_subfolder(...); latest = get_latest_video(files)
RunList ==
    /\ pc["main"] = "r_list"
    /\ \E out \in ListOutcomes :
         IF out = "ok" /\ remote # NoVideo
         THEN /\ latest' = [latest EXCEPT !["main"] = remote]
              /\ Observe(remote)
              /\ pc' = [pc EXCEPT !["main"] = "r_download"]
         ELSE \* "No videos in subfolder": return
              /\ pc' = [pc EXCEPT !["main"] = "exited"]
              /\ UNCHANGED <<latest, seenVars>>
    /\ UNCHANGED <<variant, identVars, robustVars, statusVars, httpVars, folderVars, tempVars, callVars, disk, procs, playerVars, monitoring, transition_lock,
                   video_path, site, envVars, pollVars, dieBudget, restartsInRow>>

\* [6/6] video_path = self.download_video(latest); return when it is None
RunDownload ==
    /\ pc["main"] = "r_download"
    /\ DownloadVideo("main")
    /\ UNCHANGED <<variant, identVars, robustVars, statusVars, httpVars, folderVars, procs, current_video_path, vlc_process, monitoring,
                   transition_lock, envVars, pollVars, seenVars, dieBudget,
                   restartsInRow, driver>>

\* [7/7] self.status_reporter.start_heartbeat(self) (firebase), then
\* monitor_thread = threading.Thread(target=self.monitor_subfolder, daemon=True)
StartMonitor ==
    /\ pc["main"] = "start_monitor"
    /\ pc' = [pc EXCEPT !["main"] = "wait", !["mon"] = "loop"]
    /\ hb' = IF initialized THEN "test" ELSE hb
    /\ UNCHANGED <<variant, identVars, robustVars, httpVars, initialized, published, folderVars, tempVars, callVars, disk, procs, playerVars, monitoring, transition_lock,
                   latest, video_path, site, envVars, pollVars, seenVars,
                   dieBudget, restartsInRow>>

\* except KeyboardInterrupt: self.monitoring = False
ShutdownFlag ==
    /\ pc["main"] = "wait"
    /\ monitoring' = FALSE
    /\ pc' = [pc EXCEPT !["main"] = "sd_kill"]
    /\ UNCHANGED <<variant, identVars, robustVars, statusVars, httpVars, folderVars, tempVars, callVars, disk, procs, playerVars, transition_lock, latest,
                   video_path, site, envVars, pollVars, seenVars, dieBudget,
                   restartsInRow>>

\* self.kill_all_vlc_processes() (loop) / self.stop_playback() (smooth)
ShutdownKill ==
    /\ pc["main"] = "sd_kill"
    /\ procs' = IF variant = "loop" THEN KillAll(procs) ELSE StopPlayback(procs)
    /\ pc' = [pc EXCEPT !["main"] = "stopped"]
    /\ UNCHANGED <<variant, identVars, robustVars, statusVars, httpVars, folderVars, tempVars, callVars, disk, playerVars, monitoring, transition_lock, latest,
                   video_path, site, envVars, pollVars, seenVars, dieBudget,
                   restartsInRow>>

\* run() returns and the interpreter exits: the daemon threads end with it
ProcessExit ==
    /\ pc["main"] = "stopped"
    /\ pc' = [pc EXCEPT !["main"] = "exit", !["mon"] = "killed"]
    /\ hb' = IF hb \in {"off", "done"} THEN hb ELSE "killed"
    /\ UNCHANGED <<variant, identVars, robustVars, httpVars, initialized, published, folderVars, tempVars, callVars, disk, procs, playerVars, monitoring, transition_lock,
                   latest, video_path, site, envVars, pollVars, seenVars,
                   dieBudget, restartsInRow>>

\* ------------------------------------------- monitor thread: monitor_subfolder
\* while self.monitoring:
MonLoopTest ==
    /\ pc["mon"] = "loop"
    /\ IF monitoring
       THEN /\ pc' = [pc EXCEPT !["mon"] = "sleep"]
            /\ delay' = NextDelay
       ELSE /\ pc' = [pc EXCEPT !["mon"] = "done"]
            /\ UNCHANGED delay
    /\ UNCHANGED <<variant, identVars, robustVars, statusVars, httpVars, folderVars, tempVars, callVars, disk, procs, playerVars, monitoring, transition_lock,
                   latest, video_path, site, envVars, lastPoll, failStreak,
                   seenVars, dieBudget, restartsInRow>>

\* time.sleep(check_interval) returns
MonWake ==
    /\ pc["mon"] = "sleep"
    /\ pc' = [pc EXCEPT !["mon"] = "list"]
    /\ UNCHANGED <<variant, identVars, robustVars, statusVars, httpVars, folderVars, tempVars, callVars, disk, procs, playerVars, monitoring, transition_lock,
                   latest, video_path, site, envVars, pollVars, seenVars,
                   dieBudget, restartsInRow>>

PollFailedStops ==
    /\ lastPoll' = "failed"
    /\ failStreak' = Min(failStreak + 1, MaxStreak)
    /\ pc' = [pc EXCEPT !["mon"] = "loop"]
    /\ procs' = StopPlayback(procs)
    /\ current_video_path' = None
    /\ UNCHANGED <<latest, seenVars, current_video_id, current_video_name,
                   vlc_process>>

\* list_videos_in_subfolder returned None (a status other than 200, or an
\* exception): "if not files: continue"
PollFailed ==
    /\ lastPoll' = "failed"
    /\ failStreak' = Min(failStreak + 1, MaxStreak)
    /\ pc' = [pc EXCEPT !["mon"] = "loop"]
    /\ UNCHANGED <<latest, seenVars, procs, playerVars>>

\* files = self.list_videos_in_subfolder(...); if not files: continue
\* latest_video = self.get_latest_video(files)
MonList ==
    /\ pc["mon"] = "list"
    /\ \E out \in ListOutcomes :
         IF out = "error"
         THEN PollFailed
         ELSE IF remote = NoVideo
         THEN \* an empty list: "if not files: continue"
              /\ lastPoll' = "empty"
              /\ failStreak' = 0
              /\ pc' = [pc EXCEPT !["mon"] = "loop"]
              /\ UNCHANGED <<latest, seenVars, procs, playerVars>>
         ELSE /\ lastPoll' = "ok"
              /\ failStreak' = 0
              /\ latest' = [latest EXCEPT !["mon"] = remote]
              /\ Observe(remote)
              /\ pc' = [pc EXCEPT !["mon"] = "compare"]
              /\ UNCHANGED <<procs, playerVars>>
    /\ UNCHANGED <<variant, identVars, robustVars, statusVars, httpVars, folderVars, tempVars, callVars, disk, monitoring, transition_lock, video_path, site,
                   envVars, delay, dieBudget, restartsInRow>>

\* if latest_video['id'] != self.current_video_id: ... else: "No updates"
MonCompare ==
    /\ pc["mon"] = "compare"
    /\ IF IsNewVideo(latest["mon"])
       THEN /\ pc' = [pc EXCEPT !["mon"] = "download"]
            /\ UNCHANGED latest
       ELSE /\ pc' = [pc EXCEPT !["mon"] = "check"]
            /\ latest' = [latest EXCEPT !["mon"] = NoVideo]
    /\ UNCHANGED <<variant, identVars, robustVars, statusVars, httpVars, folderVars, tempVars, callVars, disk, procs, playerVars, monitoring, transition_lock,
                   video_path, site, envVars, pollVars, seenVars, dieBudget,
                   restartsInRow>>

\* video_path = self.download_video(latest_video); if video_path: play_video_*
MonDownload ==
    /\ pc["mon"] = "download"
    /\ DownloadVideo("mon")
    /\ UNCHANGED <<variant, identVars, robustVars, statusVars, httpVars, folderVars, procs, current_video_path, vlc_process, monitoring,
                   transition_lock, envVars, pollVars, seenVars, dieBudget,
                   restartsInRow, driver>>

MonCheckNoRestart ==
    /\ pc["mon"] = "check"
    /\ pc' = [pc EXCEPT !["mon"] = "loop"]
    /\ latest' = [latest EXCEPT !["mon"] = NoVideo]
    /\ UNCHANGED <<variant, identVars, robustVars, statusVars, httpVars, folderVars, tempVars, callVars, disk, procs, playerVars, monitoring, transition_lock,
                   video_path, site, envVars, pollVars, seenVars, dieBudget,
                   restartsInRow>>

\* if auto_restart and not self.is_vlc_running() and self.current_video_path:
\*     self.play_video_*(self.current_video_path, is_update=False)
MonCheck ==
    /\ pc["mon"] = "check"
    /\ IF ~IsVlcRunning /\ current_video_path # None
       THEN /\ video_path' = [video_path EXCEPT !["mon"] = current_video_path]
            /\ site' = [site EXCEPT !["mon"] = "restart"]
            /\ pc' = [pc EXCEPT !["mon"] = "play_lock"]
       ELSE /\ pc' = [pc EXCEPT !["mon"] = "loop"]
            /\ UNCHANGED <<video_path, site>>
    /\ latest' = [latest EXCEPT !["mon"] = NoVideo]
    /\ UNCHANGED <<variant, identVars, robustVars, statusVars, httpVars, folderVars, tempVars, callVars, disk, procs, playerVars, monitoring, transition_lock,
                   envVars, pollVars, seenVars, dieBudget, restartsInRow>>

\* ------------------------------------ status sink and heartbeat (firebase)
\* run(): if not self.status_reporter or not self.status_reporter.initialized:
\*     "Firebase connection failed"; return
RunSink ==
    /\ pc["main"] = "r_sink"
    /\ pc' = [pc EXCEPT !["main"] = IF initialized THEN "r_list" ELSE "exited"]
    /\ UNCHANGED <<variant, identVars, robustVars, statusVars, httpVars, folderVars, tempVars, callVars, disk,
                   procs, playerVars, monitoring, transition_lock, latest,
                   video_path, site, envVars, pollVars, seenVars, dieBudget,
                   restartsInRow>>

\* heartbeat_loop: while player_instance.monitoring:
HeartbeatTest ==
    /\ hb = "test"
    /\ hb' = IF monitoring THEN "beat" ELSE "done"
    /\ UNCHANGED <<variant, identVars, robustVars, httpVars, initialized, published, folderVars, tempVars,
                   callVars, disk, procs, playerVars, monitoring,
                   transition_lock, pc, latest, video_path, site, envVars,
                   pollVars, seenVars, dieBudget, restartsInRow>>

HeartbeatBeatEndsOnError ==
    /\ hb = "beat"
    /\ \E out \in SinkOutcomes :
         /\ published' = HeartbeatStatus(out)
         /\ hb' = IF out = "error" THEN "done" ELSE "sleep"
    /\ UNCHANGED <<variant, identVars, robustVars, httpVars, initialized, folderVars, tempVars,
                   callVars, disk, procs, playerVars, monitoring,
                   transition_lock, pc, latest, video_path, site, envVars,
                   pollVars, seenVars, dieBudget, restartsInRow>>

\* the body of the loop: report_playing(...) or report_idle(), whose
\* send_status catches the exception of the update; then time.sleep
HeartbeatBeat ==
    /\ hb = "beat"
    /\ \E out \in SinkOutcomes : published' = HeartbeatStatus(out)
    /\ hb' = "sleep"
    /\ UNCHANGED <<variant, identVars, robustVars, httpVars, initialized, folderVars, tempVars,
                   callVars, disk, procs, playerVars, monitoring,
                   transition_lock, pc, latest, video_path, site, envVars,
                   pollVars, seenVars, dieBudget, restartsInRow>>

\* time.sleep(heartbeat_interval) returns
HeartbeatWake ==
    /\ hb = "sleep"
    /\ hb' = "test"
    /\ UNCHANGED <<variant, identVars, robustVars, httpVars, initialized, published, folderVars, tempVars,
                   callVars, disk, procs, playerVars, monitoring,
                   transition_lock, pc, latest, video_path, site, envVars,
                   pollVars, seenVars, dieBudget, restartsInRow>>

\* ------------------------------------- folder supervisor: monitor_and_play
\* play_video(video_path) of vlc_auto_player and vlc_simple_restart:
\* stop_vlc, Popen, current_video; an exception leaves the handle None
PlayVideo(v) ==
    /\ StopVlcSends
    /\ \E out \in SpawnOutcomes :
         IF out = "ok"
         THEN /\ Len(procs) < MaxStarts
              /\ procs' = Append(StopVlc(procs), [path |-> v, alive |-> TRUE])
              /\ vlc_process' = Len(procs) + 1
              /\ current_video' = v
         ELSE \* except Exception: the old process is stopped, no new one
              /\ procs' = StopVlc(procs)
              /\ vlc_process' = 0
              /\ UNCHANGED current_video

\* vlc_auto_player_rc.switch_video(video_path): clear, add, play, repeat
SwitchVideo(v) ==
    /\ procs' = Showing(procs, v)
    /\ current_video' = v
    /\ UNCHANGED <<vlc_process, lastStop>>

\* the sort key of get_latest_video raised inside the loop's try block:
\* except Exception: stop_vlc() (auto, simple); rc and http leave VLC running
LoopRaised ==
    /\ lastScan' = "raise"
    /\ pc' = [pc EXCEPT !["main"] = "m_crashed"]
    /\ UNCHANGED current_video
    /\ IF script \in {"rc", "http"}
       THEN UNCHANGED <<procs, vlc_process, lastStop>>
       ELSE /\ StopVlcSends
            /\ procs' = StopVlc(procs)
            /\ vlc_process' = HandleAfterStop

\* the start of monitor_and_play, up to the first sleep; an exception of the
\* initial get_latest_video is raised outside the try block
FolderStart ==
    /\ pc["main"] = "m_start"
    /\ script # "http"
    /\ \E scan \in ScanOutcomes, st \in StatOutcomes :
         LET latest_video == GetLatestVideo(scan) IN
         /\ st = "raise" => latest_video # None
         /\ lastScan' = IF st = "raise" THEN "raise" ELSE scan
         /\ IF script = "rc"
            THEN \* start_vlc_with_rc(), then the initial switch_video
                 /\ UNCHANGED lastStop
                 /\ \E out \in SpawnOutcomes :
                      IF out = "ok"
                      THEN /\ Len(procs) < MaxStarts
                           /\ vlc_process' = Len(procs) + 1
                           /\ IF st = "raise"
                              THEN /\ procs' = Append(procs, [path |-> None,
                                                              alive |-> TRUE])
                                   /\ UNCHANGED current_video
                                   /\ pc' = [pc EXCEPT !["main"] = "m_crashed"]
                              ELSE /\ procs' = Append(procs,
                                                      [path |-> latest_video,
                                                       alive |-> TRUE])
                                   /\ current_video' = latest_video
                                   /\ pc' = [pc EXCEPT !["main"] = "m_sleep"]
                      ELSE \* "Failed to start VLC": return
                           /\ st = "ok"
                           /\ pc' = [pc EXCEPT !["main"] = "m_failed"]
                           /\ UNCHANGED <<procs, vlc_process, current_video>>
            ELSE IF st = "raise"
            THEN /\ pc' = [pc EXCEPT !["main"] = "m_crashed"]
                 /\ UNCHANGED <<procs, vlc_process, current_video, lastStop>>
            ELSE /\ IF latest_video # None
                    THEN PlayVideo(latest_video)
                    ELSE UNCHANGED <<procs, vlc_process, current_video,
                                     lastStop>>
                 /\ pc' = [pc EXCEPT !["main"] = "m_sleep"]
    /\ UNCHANGED <<variant, identVars, robustVars, statusVars, httpVars, tempVars, callVars, script, folder, folderChanges,
                   disk, current_video_id, current_video_name,
                   current_video_path, monitoring, transition_lock, latest,
                   video_path, site, envVars, pollVars, seenVars, dieBudget,
                   restartsInRow>>

\* "All videos removed from folder": stop_vlc(); current_video = None
StopForEmptyFolder ==
    IF current_video # None
    THEN /\ StopVlcSends
         /\ procs' = StopVlc(procs)
         /\ vlc_process' = HandleAfterStop
         /\ current_video' = None
    ELSE UNCHANGED <<procs, vlc_process, current_video, lastStop>>

\* one iteration of vlc_auto_player.monitor_and_play after its sleep
PollAuto ==
    \E scan \in ScanOutcomes, st \in StatOutcomes :
       LET latest_video == GetLatestVideo(scan) IN
       /\ st = "raise" => latest_video # None
       /\ IF st = "raise"
          THEN LoopRaised
          ELSE /\ lastScan' = scan
               /\ pc' = pc
               /\ IF latest_video = None
                  THEN StopForEmptyFolder
                  ELSE IF current_video = None \/ latest_video # current_video
                  THEN PlayVideo(latest_video)
                  ELSE IF ~IsVlcRunning
                  THEN \* "VLC was closed. Restarting playback..."
                       PlayVideo(current_video)
                  ELSE UNCHANGED <<procs, vlc_process, current_video,
                                   lastStop>>

\* one iteration of vlc_auto_player_rc.monitor_and_play after its sleep
PollRc ==
    IF ~IsVlcRunning
    THEN \* "VLC was closed by user. Exiting monitor...": break
         /\ pc' = [pc EXCEPT !["main"] = "m_exited"]
         /\ UNCHANGED <<lastScan, procs, vlc_process, current_video, lastStop>>
    ELSE \E scan \in ScanOutcomes, st \in StatOutcomes :
            LET latest_video == GetLatestVideo(scan) IN
            /\ st = "raise" => latest_video # None
            /\ IF st = "raise"
               THEN LoopRaised
               ELSE /\ lastScan' = scan
                    /\ pc' = pc
                    /\ IF latest_video = None
                       THEN IF current_video # None
                            THEN \* self.vlc_rc.clear_playlist()
                                 /\ procs' = Showing(procs, None)
                                 /\ current_video' = None
                                 /\ UNCHANGED <<vlc_process, lastStop>>
                            ELSE UNCHANGED <<procs, vlc_process, current_video,
                                             lastStop>>
                       ELSE IF current_video = None
                               \/ latest_video # current_video
                       THEN SwitchVideo(latest_video)
                       ELSE UNCHANGED <<procs, vlc_process, current_video,
                                        lastStop>>

\* one iteration of vlc_simple_restart.monitor_and_play after its sleep
PollSimple ==
    IF current_video # None /\ ~IsVlcRunning
    THEN \* "VLC closed. Restarting playback...": play_video; continue
         /\ PlayVideo(current_video)
         /\ pc' = pc
         /\ UNCHANGED lastScan
    ELSE \E scan \in ScanOutcomes, st \in StatOutcomes :
            LET latest_video == GetLatestVideo(scan) IN
            /\ st = "raise" => latest_video # None
            /\ IF st = "raise"
               THEN LoopRaised
               ELSE /\ lastScan' = scan
                    /\ pc' = pc
                    /\ IF latest_video = None
                       THEN StopForEmptyFolder
                       ELSE IF current_video = None
                               \/ latest_video # current_video
                       THEN PlayVideo(latest_video)
                       ELSE UNCHANGED <<procs, vlc_process, current_video,
                                        lastStop>>

\* start_vlc_with_http(initial_video): Popen, then the connection test
HttpStartVlc(v, conn) ==
    \E out \in SpawnOutcomes :
       IF out = "ok"
       THEN /\ Len(procs) < MaxStarts
            /\ procs' = Append(StopVlc(procs), [path |-> v, alive |-> TRUE])
            /\ vlc_process' = Len(procs) + 1
       ELSE \* except Exception: return False; the handle stays as it is
            /\ conn = "ok"
            /\ procs' = StopVlc(procs)
            /\ UNCHANGED vlc_process

\* vlc_auto_player_fixed: the start of monitor_and_play up to the first sleep
HttpStart ==
    /\ pc["main"] = "m_start"
    /\ script = "http"
    /\ \E scan \in ScanOutcomes, st \in StatOutcomes :
         LET latest_video == GetLatestVideo(scan) IN
         /\ st = "raise" => latest_video # None
         /\ lastScan' = IF st = "raise" THEN "raise" ELSE scan
         /\ IF st = "raise"
            THEN /\ pc' = [pc EXCEPT !["main"] = "m_crashed"]
                 /\ UNCHANGED <<procs, vlc_process, current_video, httpVars>>
            ELSE /\ \E conn \in ConnectOutcomes :
                      /\ HttpStartVlc(latest_video, conn)
                      /\ http_working' = (vlc_process' # 0 /\ conn = "ok")
                 /\ current_video' = latest_video
                 /\ pc' = [pc EXCEPT !["main"] = "m_sleep"]
                 /\ UNCHANGED http_failed_count
    /\ UNCHANGED <<variant, identVars, robustVars, statusVars, tempVars, callVars, script, folder,
                   folderChanges, lastStop, disk, current_video_id,
                   current_video_name, current_video_path, monitoring,
                   transition_lock, latest, video_path, site, envVars,
                   pollVars, seenVars, dieBudget, restartsInRow>>

\* restart_vlc_with_video(video_path): terminate / kill the running VLC,
\* start_vlc_with_http(video_path) (its result is not used),
\* self.current_video = video_path
RestartVlcWithVideo(v) ==
    /\ StopVlcSends
    /\ \E conn \in ConnectOutcomes : HttpStartVlc(v, conn)
    /\ current_video' = v

\* one iteration of vlc_auto_player_fixed.monitor_and_play after its sleep
HttpPoll ==
    /\ pc["main"] = "m_sleep"
    /\ script = "http"
    /\ IF ~IsVlcRunning
       THEN \* "VLC was closed by user. Exiting monitor...": break
            /\ pc' = [pc EXCEPT !["main"] = "m_exited"]
            /\ UNCHANGED <<lastScan, procs, vlc_process, current_video,
                           lastStop, httpVars>>
       ELSE \E scan \in ScanOutcomes, st \in StatOutcomes :
               LET latest_video == GetLatestVideo(scan) IN
               /\ st = "raise" => latest_video # None
               /\ IF st = "raise"
                  THEN LoopRaised /\ UNCHANGED httpVars
                  ELSE
                  /\ lastScan' = scan
                  /\ pc' = pc
                  /\ IF latest_video = None
                     THEN \* clear_playlist() when http_working
                          /\ procs' = IF current_video # None /\ http_working
                                      THEN Showing(procs, None) ELSE procs
                          /\ current_video' = None
                          /\ UNCHANGED <<vlc_process, lastStop, httpVars>>
                     ELSE IF current_video # None
                             /\ latest_video = current_video
                     THEN UNCHANGED <<procs, vlc_process, current_video,
                                      lastStop, httpVars>>
                     ELSE IF ~http_working
                     THEN \* "Use restart method"
                          /\ RestartVlcWithVideo(latest_video)
                          /\ UNCHANGED httpVars
                     ELSE \E out \in HttpSwitchOutcomes :
                        IF out = "raise"
                        THEN \* success is False: http_failed_count += 1
                             /\ http_failed_count' = http_failed_count + 1
                             /\ IF FallbackDue(http_failed_count + 1)
                                THEN /\ http_working' = FALSE
                                     /\ RestartVlcWithVideo(latest_video)
                                ELSE UNCHANGED <<http_working, procs,
                                                 vlc_process, current_video,
                                                 lastStop>>
                        ELSE \* "Video switched successfully"
                             /\ http_failed_count' = 0
                             /\ procs' = IF out = "ok"
                                         THEN Showing(procs, latest_video)
                                         ELSE procs
                             /\ current_video' = latest_video
                             /\ UNCHANGED <<vlc_process, lastStop,
                                            http_working>>
    /\ UNCHANGED <<variant, identVars, robustVars, statusVars, tempVars, callVars, script, folder,
                   folderChanges, disk, current_video_id,
                   current_video_name, current_video_path, monitoring,
                   transition_lock, latest, video_path, site, envVars,
                   pollVars, seenVars, dieBudget, restartsInRow>>

RobustTickChecksWhenDue ==
    /\ pc["main"] = "m_sleep"
    /\ script = "robust"
    /\ IF ~PollDue(check_counter + 1)
       THEN /\ check_counter' = check_counter + 1
            /\ pc' = pc
            /\ UNCHANGED <<lastScan, procs, vlc_process, current_video,
                           lastStop, window, lastWindow>>
       ELSE /\ check_counter' = 0
            /\ PollSimple
            /\ \E w \in WindowOutcomes :
                 /\ w = "found" => IsVlcRunning
                 /\ lastWindow' = w
                 /\ window' = IF Len(procs') > Len(procs)
                                 \/ (w = "found" /\ window = "minimized")
                               THEN "normal" ELSE window
    /\ UNCHANGED <<variant, identVars, statusVars, httpVars, tempVars,
                   callVars, script,
                   folder, folderChanges, disk, current_video_id,
                   current_video_name, current_video_path, monitoring,
                   transition_lock, latest, video_path, site, envVars,
                   pollVars, seenVars, dieBudget, restartsInRow>>

\* one iteration of vlc_robust.monitor_and_play: time.sleep(5) returns,
\* check_counter += 1, check_and_restore_window(), and when the content
\* poll is due the iteration of vlc_simple_restart (play_video starts VLC
\* with a normal window)
RobustTick ==
    /\ pc["main"] = "m_sleep"
    /\ script = "robust"
    /\ \E w \in WindowOutcomes :
         /\ w = "found" => IsVlcRunning
         /\ lastWindow' = w
         /\ IF ~PollDue(check_counter + 1)
            THEN /\ check_counter' = check_counter + 1
                 /\ pc' = pc
                 /\ window' = IF w = "found" /\ window = "minimized"
                               THEN "normal" ELSE window
                 /\ UNCHANGED <<lastScan, procs, vlc_process, current_video,
                                lastStop>>
            ELSE /\ check_counter' = 0
                 /\ PollSimple
                 /\ window' = IF Len(procs') > Len(procs)
                                 \/ (w = "found" /\ window = "minimized")
                               THEN "normal" ELSE window
    /\ UNCHANGED <<variant, identVars, statusVars, httpVars, tempVars,
                   callVars, script,
                   folder, folderChanges, disk, current_video_id,
                   current_video_name, current_video_path, monitoring,
                   transition_lock, latest, video_path, site, envVars,
                   pollVars, seenVars, dieBudget, restartsInRow>>

\* the VLC window is minimized (by the user, by another program)
Minimize ==
    /\ pc["main"] = "m_sleep"
    /\ script = "robust"
    /\ IsVlcRunning
    /\ window = "normal"
    /\ window' = "minimized"
    /\ UNCHANGED <<variant, identVars, statusVars, httpVars, tempVars,
                   callVars,
                   folderVars, check_counter, lastWindow, disk, procs,
                   playerVars, monitoring, transition_lock, pc, latest,
                   video_path, site, envVars, pollVars, seenVars, dieBudget,
                   restartsInRow>>

\* time.sleep(self.check_interval) returns and the iteration runs
FolderPoll ==
    /\ pc["main"] = "m_sleep"
    /\ script \notin {"http", "robust"}
    /\ CASE script = "auto" -> PollAuto
         [] script = "rc" -> PollRc
         [] OTHER -> PollSimple
    /\ UNCHANGED <<variant, identVars, robustVars, statusVars, httpVars, tempVars, callVars, script, folder, folderChanges,
                   disk, current_video_id, current_video_name,
                   current_video_path, monitoring, transition_lock, latest,
                   video_path, site, envVars, pollVars, seenVars, dieBudget,
                   restartsInRow>>

\* except KeyboardInterrupt: stop_vlc() (auto, simple); the rc and http
\* scripts leave VLC running
FolderInterrupt ==
    /\ pc["main"] = "m_sleep"
    /\ pc' = [pc EXCEPT !["main"] = "m_interrupted"]
    /\ IF script \in {"rc", "http"}
       THEN UNCHANGED <<procs, vlc_process, lastStop>>
       ELSE /\ StopVlcSends
            /\ procs' = StopVlc(procs)
            /\ vlc_process' = HandleAfterStop
    /\ UNCHANGED <<variant, identVars, robustVars, statusVars, httpVars, tempVars, callVars, script, folder, current_video,
                   lastScan, folderChanges, disk,
                   current_video_id, current_video_name, current_video_path,
                   monitoring, transition_lock, latest, video_path, site,
                   envVars, pollVars, seenVars, dieBudget, restartsInRow>>

\* -------------------------------------------------------------- environment
\* the newest video of the watched folder changes: a copy, a removal
FolderChange ==
    /\ folderChanges < MaxFolderChanges
    /\ pc["main"] = "m_sleep"
    /\ \E v \in (Names \cup {None}) \ {folder} : folder' = v
    /\ folderChanges' = folderChanges + 1
    /\ UNCHANGED <<variant, identVars, robustVars, statusVars, httpVars, tempVars, callVars, script, current_video, lastScan,
                   lastStop, disk, procs, playerVars, monitoring, transition_lock, pc,
                   latest, video_path, site, envVars, pollVars, seenVars,
                   dieBudget, restartsInRow>>

\* the subfolder's newest file changes: an upload, a rename, a removal; the
\* program reads remote only when it lists, so the changes between two polls
\* are taken while the monitor sleeps (several in a row are possible)
RemoteChange ==
    /\ remoteChanges < MaxRemoteChanges
    /\ pc["mon"] = "sleep"
    /\ \E v \in (Videos \cup {NoVideo}) \ {remote} : remote' = v
    /\ remoteChanges' = remoteChanges + 1
    /\ UNCHANGED <<variant, identVars, robustVars, statusVars, httpVars, folderVars, tempVars, callVars, disk, procs, playerVars, monitoring, transition_lock,
                   pc, latest, video_path, site, crashes, faults, pollVars,
                   seenVars, dieBudget, restartsInRow>>

\* a running VLC process dies
Crash ==
    /\ crashes < MaxCrashes
    /\ \E p \in AlivePids : procs' = [procs EXCEPT ![p].alive = FALSE]
    /\ crashes' = crashes + 1
    /\ UNCHANGED <<variant, identVars, robustVars, statusVars, httpVars, folderVars, tempVars, callVars, disk, playerVars, monitoring, transition_lock, pc,
                   latest, video_path, site, remote, remoteChanges, faults,
                   pollVars, seenVars, dieBudget, restartsInRow>>

\* --------------------------------------------------------------------- Next
MainNext ==
    \/ RunList
    \/ RunDownload
    \/ StartMonitor
    \/ ShutdownFlag
    \/ ShutdownKill
    \/ ProcessExit

MonNext ==
    \/ MonLoopTest
    \/ MonWake
    \/ MonList
    \/ MonCompare
    \/ MonDownload
    \/ MonCheck

PlayNext == \E t \in Threads : AcquireLock(t) \/ PlayCheck(t) \/ PlaySpawn(t)

DownloadNext == \E t \in Threads : DownloadStream(t) \/ DownloadRename(t)

Next == MainNext \/ MonNext \/ PlayNext \/ DownloadNext \/ RemoteChange \/ Crash

Spec == Init /\ [][Next]_vars

\* the flaky-renderer runs: run() and the monitor thread alone, every thread
\* that can take a step eventually takes one
NextFlaky ==
    \/ RunList
    \/ RunDownload
    \/ StartMonitor
    \/ MonLoopTest
    \/ MonWake
    \/ MonList
    \/ MonCompare
    \/ MonCheck
    \/ PlayNext
    \/ DownloadNext

SpecFlaky == InitFlaky /\ [][NextFlaky]_vars /\ WF_vars(NextFlaky)

\* the call-sequence runs
NextCalls ==
    \/ Call
    \/ RunDownload
    \/ DownloadStream("main")
    \/ DownloadRename("main")

SpecCalls == InitCalls /\ [][NextCalls]_vars

\* the firebase player: run() from the sink check on, the monitor thread
\* and the heartbeat thread; the heartbeat thread is scheduled again and
\* again while it can run
HeartbeatNext == HeartbeatTest \/ HeartbeatBeat \/ HeartbeatWake

NextStatus == RunSink \/ Next \/ HeartbeatNext

SpecStatus == InitStatus /\ [][NextStatus]_vars /\ WF_vars(HeartbeatNext)

\* the folder supervisor and its environment
NextFolder ==
    \/ FolderStart
    \/ FolderPoll
    \/ HttpStart
    \/ HttpPoll
    \/ RobustTick
    \/ Minimize
    \/ FolderInterrupt
    \/ FolderChange
    \/ Crash

SpecFolder == InitFolder /\ [][NextFolder]_vars

\* ----------------------------------------------------- identity: the steps
\* get_external_ip up to the primary request: the name lookup and
\* requests.get of api.ipify.org in one try block; the body of the answer is
\* the IP whatever the status code is
GetIpPrimary ==
    /\ pc["main"] = "r_ip"
    /\ requested' = IF hostLookup = "raise" THEN requested
                    ELSE Append(requested, IpServices[1])
    /\ IF hostLookup = "raise" \/ responses[1].raised
       THEN /\ pc' = [pc EXCEPT !["main"] = "ip_fallback"]
            /\ service' = 2
            /\ UNCHANGED <<external_ip, ip_result>>
       ELSE /\ external_ip' = Strip(responses[1].text)
            /\ ip_result' = Strip(responses[1].text)
            /\ pc' = [pc EXCEPT !["main"] = "ip_done"]
            /\ UNCHANGED service
    /\ UNCHANGED <<variant, robustVars, statusVars, httpVars, folderVars,
                   tempVars, callVars, responses, hostLookup, subfolders,
                   my_subfolder, disk, procs, playerVars, monitoring,
                   transition_lock, latest, video_path, site, envVars,
                   pollVars, seenVars, dieBudget, restartsInRow>>

\* one round of "for service in fallback_services"; after the last service
\* "Could not determine external IP", return None
GetIpFallback ==
    /\ pc["main"] = "ip_fallback"
    /\ requested' = Append(requested, IpServices[service])
    /\ IF FallbackAnswers(responses[service])
       THEN /\ external_ip' = Strip(responses[service].text)
            /\ ip_result' = Strip(responses[service].text)
            /\ pc' = [pc EXCEPT !["main"] = "ip_done"]
            /\ UNCHANGED service
       ELSE IF service = Len(IpServices)
       THEN /\ ip_result' = NoIp
            /\ pc' = [pc EXCEPT !["main"] = "ip_done"]
            /\ UNCHANGED <<external_ip, service>>
       ELSE /\ service' = service + 1
            /\ UNCHANGED <<external_ip, ip_result, pc>>
    /\ UNCHANGED <<variant, robustVars, statusVars, httpVars, folderVars,
                   tempVars, callVars, responses, hostLookup, subfolders,
                   my_subfolder, disk, procs, playerVars, monitoring,
                   transition_lock, latest, video_path, site, envVars,
                   pollVars, seenVars, dieBudget, restartsInRow>>

\* run: if not self.get_external_ip(): return
RunIdentity ==
    /\ pc["main"] = "ip_done"
    /\ pc' = [pc EXCEPT !["main"] = IF ip_result \in {NoIp, << >>}
                                    THEN "exited" ELSE "r_subfolders"]
    /\ UNCHANGED <<variant, identVars, robustVars, statusVars, httpVars,
                   folderVars, tempVars, callVars, disk, procs, playerVars,
                   monitoring, transition_lock, latest, video_path, site,
                   envVars, pollVars, seenVars, dieBudget, restartsInRow>>

NextIdentity == GetIpPrimary \/ GetIpFallback \/ RunIdentity

SpecIdentity == InitIdentity /\ [][NextIdentity]_vars

\* run: my_subfolder = self.find_my_subfolder(subfolders);
\* if not my_subfolder: return (V3_fixed returns before it for an empty list)
RunFind ==
    /\ pc["main"] = "r_find"
    /\ my_subfolder' = IF variant = "smooth"
                       THEN FindMySubfolderV3(subfolders, external_ip)
                       ELSE FindMySubfolderFixed(subfolders, external_ip)
    /\ pc' = [pc EXCEPT !["main"] = IF my_subfolder' = NoFolder
                                    THEN "exited" ELSE "r_setup"]
    /\ UNCHANGED <<variant, robustVars, statusVars, httpVars, folderVars,
                   tempVars, callVars, responses, hostLookup, service,
                   requested, external_ip, ip_result, subfolders, disk, procs,
                   playerVars, monitoring, transition_lock, latest,
                   video_path, site, envVars, pollVars, seenVars, dieBudget,
                   restartsInRow>>

SpecFind == InitFind /\ [][RunFind]_vars

\* ------------------------------------------------------------------ claims
InPlay(t) == pc[t] \in {"play_check", "play_spawn"}

\* the renderer the handle names is alive and plays current_video_path
Playing ==
    /\ IsVlcRunning
    /\ procs[vlc_process].path = current_video_path

\* C1: at no instant are two VLC processes spawned by the supervisor alive
\* together, whatever the polls, new videos, crashes and restarts.
C1_AtMostOneRenderer == Cardinality(AlivePids) <= 1

\* a third renderer runs alone after one crash restart and one switch (smooth)
C1_Witness ==
    /\ variant = "smooth"
    /\ Len(procs) >= 3
    /\ crashes = 1
    /\ Cardinality(AlivePids) = 1

\* C2 as stated: with no renderer crash (and before shutdown), the renderer
\* starts are no more than the distinct ids observed.
C2_StartsWithinDistinctIds ==
    (crashes = 0 /\ monitoring) => Len(procs) <= Cardinality(observedIds)

\* C2 amended: with no renderer crash (and before shutdown), the renderer
\* starts are no more than the observations whose id differs from the id
\* observed before (the first observation counted).
C2_StartsWithinIdChanges ==
    (crashes = 0 /\ monitoring) => Len(procs) <= idChanges

\* three starts for the ids v, w, v
C2_Witness ==
    /\ crashes = 0
    /\ monitoring
    /\ Len(procs) = 3
    /\ idChanges = 3
    /\ Cardinality(observedIds) = 2

\* C3: a thread is inside play_video_loop / play_video_smooth only while it
\* holds the transition lock, so two executions never overlap.
C3_SwapsSerialized ==
    /\ \A t \in Threads : InPlay(t) => transition_lock = t
    /\ Cardinality({t \in Threads : InPlay(t)}) <= 1

\* the monitor's update swap holds the lock after the main thread's swap ended
C3_Witness ==
    /\ pc["mon"] = "play_spawn"
    /\ site["mon"] = "update"
    /\ transition_lock = "mon"
    /\ Len(procs) >= 1

\* C4: every write of current_video_id, current_video_name, current_video_path
\* and vlc_process, and the kill at shutdown, happens with the transition lock
\* held.
C4_WritesUnderLock ==
    [][ /\ (playerVars' # playerVars => transition_lock \in Threads)
        /\ ((pc["main"] = "sd_kill" /\ pc'["main"] = "stopped")
               => transition_lock = "main") ]_vars

\* C5: the monitor downloads only a video whose id differs from
\* current_video_id; a latest video with the current id, whatever its name,
\* sends the tick to the liveness check with no download and no start.
C5_SameIdIsNoOp ==
    /\ [](pc["mon"] = "download" => latest["mon"].id # current_video_id)
    /\ [][ (/\ pc["mon"] = "compare"
            /\ pc'["mon"] # "compare"
            /\ latest["mon"].id = current_video_id)
           => /\ pc'["mon"] \in {"check", "killed"}
              /\ UNCHANGED <<disk, procs, playerVars>> ]_vars

\* the latest video has the current id under another name, and the tick is at
\* the liveness check with the renderer running
C5_Witness ==
    /\ pc["mon"] = "check"
    /\ remote.id = current_video_id
    /\ remote.name # current_video_name
    /\ IsVlcRunning

\* C6: a poll whose listing fails changes nothing but the poll's own record:
\* the renderer is not stopped, current_video_id and current_video_path stay,
\* and the loop goes on to the next poll.
C6_FailedPollKeepsPlaying ==
    [][ (pc["mon"] = "list" /\ lastPoll' = "failed" /\ pc'["mon"] # "list")
        => /\ pc'["mon"] \in {"loop", "killed"}
           /\ UNCHANGED <<disk, procs, playerVars, monitoring, transition_lock>> ]_vars

\* the renderer still plays the current video after MaxStreak failed polls
C6_Witness ==
    /\ failStreak = MaxStreak
    /\ lastPoll = "failed"
    /\ pc["mon"] = "loop"
    /\ Playing
    /\ current_video_id # None

\* C7: a tick never ends at the listing step (a failed or empty listing) while
\* the renderer is dead and a video is current: the restart is not skipped.
C7_CrashRestartEveryTick ==
    [][ (pc["mon"] = "list" /\ pc'["mon"] = "loop")
        => (IsVlcRunning \/ current_video_path = None) ]_vars

\* C8: with a renderer that exits at once on its first FlakyStarts starts, the
\* supervisor ends with a live renderer on the current asset, after no more
\* than FlakyStarts + 1 restarts.
C8_CrashRecoveryConverges ==
    /\ <>[](Playing /\ disk[current_video_path] = current_video_id)
    /\ [](restartsInRow <= FlakyStarts + 1)

\* the start after the FlakyStarts dead ones is alive
C8_Witness ==
    /\ Len(procs) = FlakyStarts + 1
    /\ restartsInRow = FlakyStarts
    /\ Playing

\* C9: the restarts in a row never exceed a maximum.
C9_RestartsBounded == restartsInRow <= RestartLimit

ReturnsNone(t) ==
    /\ pc[t] \in {"r_download", "download", "dl_stream", "dl_rename"}
    /\ IF driver = "calls"
       THEN /\ Len(fetchLog') = Len(fetchLog) + 1
            /\ fetchLog'[Len(fetchLog')].ret = None
       ELSE pc'[t] \in {"exited", "check"}

\* C11: two calls of download_video in a row with the same file_info, the
\* first returning a path: the second sends no request and returns the same
\* path, so the two perform one transfer at most (one when the first
\* fetched); no call sends more than one request.
C11_SecondCallIsLocal ==
    /\ \A i \in 1..Len(fetchLog) : fetchLog[i].sent <= 1
    /\ \A i \in 1..(Len(fetchLog) - 1) :
         (fetchLog[i].v = fetchLog[i + 1].v /\ fetchLog[i].ret # None)
            => /\ fetchLog[i + 1].sent = 0
               /\ fetchLog[i + 1].ret = fetchLog[i].ret

\* a fetch that made one transfer, then the same call answered locally
C11_Witness ==
    /\ Len(fetchLog) >= 2
    /\ fetchLog[1].v = fetchLog[2].v
    /\ fetchLog[1].ret # None
    /\ fetchLog[1].sent = 1
    /\ fetchLog[2].sent = 0
    /\ fetchLog[2].ret = fetchLog[1].ret

\* C12: a call of download_video whose destination already holds the complete
\* file of that id sends no request, whatever was fetched in between.
C12_NoRefetchOfLocalFile ==
    [][ (/\ pc["main"] = "r_download"
         /\ variant = "loop"
         /\ disk[latest["main"].name] = latest["main"].id
         /\ size[latest["main"].name] = FileLen)
        => /\ Len(fetchLog') = Len(fetchLog) + 1
           /\ fetchLog'[Len(fetchLog')].sent = 0 ]_vars

\* C13: with a declared length that the bytes written do not match, the step
\* after the stream returns None and puts no new file at the final path.
C13_MoveOnlyWhenComplete ==
    [][ \A t \in Threads :
          LET dest == latest[t].name IN
          (/\ pc[t] = "dl_rename"
           /\ pc'[t] # "dl_rename"
           /\ total_size[t] > 0
           /\ tmp[dest] # total_size[t])
          => /\ ReturnsNone(t)
             /\ \/ disk'[dest] = None
                \/ (disk'[dest] = disk[dest] /\ size'[dest] = size[dest]) ]_vars

\* C14: after a call of download_video that an error ended, the final path of
\* its file is absent or holds every byte of the file.
C14_NoPartialAfterInterrupt ==
    (/\ pc["main"] = "f_call"
     /\ Len(fetchLog) > 0
     /\ fetchLog[Len(fetchLog)].ret = None)
    => LET dest == fetchLog[Len(fetchLog)].v.name IN
       disk[dest] # None => size[dest] = FileLen

\* C15: a call of download_video that opened its .tmp file and returns None
\* leaves no .tmp file behind.
C15_TempRemovedOnFailure ==
    [][ \A t \in Threads :
          (/\ pc[t] \in {"dl_stream", "dl_rename"}
           /\ variant # "trial"
           /\ ReturnsNone(t))
          => tmp'[latest[t].name] = Absent ]_vars

\* C16: no step of a download_video call changes a final file that holds
\* another id than the one the call fetches.
C16_OtherAssetsKept ==
    [][ \A t \in Threads, n \in Names :
          (/\ pc[t] \in {"r_download", "download", "dl_stream", "dl_rename"}
           /\ pc'[t] # pc[t]
           /\ disk[n] # None
           /\ disk[n] # latest[t].id)
          => (disk'[n] = disk[n] /\ size'[n] = size[n]) ]_vars

\* C17: when the monitor's download_video call returns None, the renderer
\* processes, current_video_id, current_video_path and vlc_process are as
\* before the step, and the id is still new to the coming poll.
C17_FailedDownloadKeepsPlaying ==
    [][ (pc["mon"] \in {"download", "dl_stream", "dl_rename"} /\ ReturnsNone("mon"))
        => /\ UNCHANGED <<procs, current_video_id, current_video_path, vlc_process>>
           /\ latest["mon"].id # current_video_id'
           /\ pc'["mon"] = "check" ]_vars

\* the monitor is back from a failed download of a new id, the renderer
\* still plays the previous asset
C17_Witness ==
    /\ pc["mon"] = "check"
    /\ latest["mon"] # NoVideo
    /\ latest["mon"].id # current_video_id
    /\ Playing
    /\ Len(procs) = 1

\* C18: with no crash and before shutdown, a switch to a new video that ends
\* without a new renderer leaves the renderer of the handle running.
C18_FailedSwitchKeepsRenderer ==
    [][ \A t \in Threads :
          (/\ site[t] = "update"
           /\ pc[t] \in {"play_check", "play_spawn"}
           /\ pc'[t] \notin {"play_check", "play_spawn"}
           /\ Len(procs') = Len(procs)
           /\ crashes = 0
           /\ monitoring)
          => IsVlcRunning' ]_vars

\* the step is an iteration of the folder supervisor's loop that stays in it
FolderTick ==
    /\ pc["main"] = "m_sleep"
    /\ pc'["main"] = "m_sleep"
    /\ crashes' = crashes
    /\ folderChanges' = folderChanges

\* C19: an iteration of the folder supervisor whose folder scan raised leaves
\* the renderer processes and current_video as they were.
C19_FailedScanKeepsPlaying ==
    [][ (FolderTick /\ lastScan' = "error")
        => /\ procs' = procs
           /\ current_video' = current_video ]_vars

\* C20: an iteration of the supervising loop that finds the renderer dead
\* while a video is current does not end the loop.
C20_DeadRendererNeverEndsLoop ==
    [][ (/\ pc["main"] = "m_sleep"
         /\ ~IsVlcRunning
         /\ current_video # None)
        => pc'["main"] # "m_exited" ]_vars

\* C25: run() started on a subfolder without a video does not end; it goes on
\* to resolve the subfolder again.
C25_IdleStartKeepsRunning ==
    [][ (pc["main"] = "r_list" /\ remote = NoVideo)
        => pc'["main"] # "exited" ]_vars

\* C26: when a monitor tick has ended and the renderer is alive, the video
\* that current_video_id names (stored by download_video under
\* current_video_name) is the one at current_video_path.
C26_IdMatchesPathAfterTick ==
    (pc["mon"] = "loop" /\ IsVlcRunning)
    => current_video_path = current_video_name

\* C27: a tick that answers "No updates" for the latest video (its id is
\* current_video_id, its file the one download_video stored) has that video
\* as the one the supervisor plays and restarts.
C27_NoUpdateMeansLatestPlays ==
    [][ (/\ pc["mon"] = "compare"
         /\ pc'["mon"] = "check"
         /\ ~IsNewVideo(latest["mon"])
         /\ latest["mon"].name = current_video_name)
        => current_video_path = latest["mon"].name ]_vars

\* the step is a call of stop_vlc that is followed by no new start: the
\* Ctrl+C handler, the handler of an exception, the emptied folder
StopOnly ==
    \/ pc'["main"] \in {"m_interrupted", "m_crashed"}
    \/ (current_video # None /\ current_video' = None)

\* C23: stop_vlc called while no process exists or the process has exited
\* sends no signal and leaves processes and handle as they were (so a second
\* call in a row changes nothing); stop_playback leaves a state without a
\* running renderer as it is, and applied twice gives what it gives once.
C23_StopIsIdempotent ==
    [][ /\ (script = "auto" /\ pc["main"] = "m_sleep" /\ StopOnly
            /\ ~IsVlcRunning)
           => /\ lastStop'.signals = << >>
              /\ procs' = procs
              /\ vlc_process' = vlc_process
        /\ ~IsVlcRunning => StopPlayback(procs) = procs
        /\ StopPlayback(StopPlayback(procs)) = StopPlayback(procs) ]_vars

\* stop_vlc was called on the handle of a process that had exited
C23_Witness ==
    /\ script = "auto"
    /\ pc["main"] = "m_interrupted"
    /\ vlc_process # 0
    /\ ~procs[vlc_process].alive
    /\ lastStop = NoStop

C28_ExceptionKeepsSupervising ==
    [][ (pc["main"] = "m_sleep" /\ lastScan' = "raise")
        => /\ pc'["main"] = "m_sleep"
           /\ procs' = procs ]_vars

\* C21: the check of the status sink at the start of run() never ends the
\* run: whether the sink was initialized or not, run() goes on to resolve
\* the content.
C21_SinkFailureKeepsWorking ==
    [][ pc["main"] = "r_sink" => pc'["main"] = "r_list" ]_vars

\* the step is the heartbeat's publication
Beat == hb = "beat" /\ hb' # "beat"

\* C22: every round of the heartbeat hands the current status to the sink
\* and, whether the publication succeeded or raised, goes to its sleep; the
\* loop ends only when monitoring is off; after every sleep the next
\* heartbeat is sent unless monitoring was turned off or the program ended.
C22_HeartbeatKeepsBeating ==
    /\ [][ /\ Beat => /\ hb' \in {"sleep", "killed"}
                      /\ hb' = "sleep" =>
                           \E out \in SinkOutcomes :
                              published' = HeartbeatStatus(out)
           /\ (hb # "done" /\ hb' = "done") => ~monitoring ]_vars
    /\ (hb = "sleep") ~> (hb = "beat" \/ ~monitoring)

\* the heartbeat is about to publish again after a publication that raised,
\* with the same video current as in that publication
C22_Witness ==
    /\ hb = "beat"
    /\ monitoring
    /\ published.sent = "error"
    /\ published.status = "playing"
    /\ published.video_path = current_video_path
    /\ published.video_name = current_video_name

\* C29: a heartbeat that publishes 'playing' does so while the renderer
\* process is alive.
C29_PlayingOnlyWhenAlive ==
    [][ (Beat /\ hb' = "sleep" /\ published'.status = "playing")
        => IsVlcRunning ]_vars

\* C30: a 'playing' status published by the heartbeat names, as video_name
\* and as video_path, the file of one video.
C30_NameAndPathOfOneVideo ==
    [][ (Beat /\ hb' = "sleep" /\ published'.status = "playing")
        => published'.video_path = published'.video_name ]_vars

\* C31: once the Ctrl+C handler has set monitoring to False and killed the
\* VLC processes, no renderer spawned by the supervisor is alive.
C31_NoRendererAfterShutdown ==
    pc["main"] \in {"stopped", "exit"} => AlivePids = {}

\* C32: in vlc_simple_restart, the tick that follows a failed start (no
\* crash involved: a video is current and no renderer runs) ends with a
\* renderer that plays current_video, which is still the previous video.
C32_FailedSwitchBlankOneInterval ==
    [][ (/\ script = "simple"
         /\ FolderTick
         /\ crashes = 0
         /\ current_video # None
         /\ ~IsVlcRunning)
        => /\ current_video' = current_video
           /\ IsVlcRunning'
           /\ procs'[vlc_process'].path = current_video ]_vars

\* the step is an iteration of the HTTP-control supervisor that detected a
\* video other than current_video
HttpSwitchTick ==
    /\ script = "http"
    /\ pc["main"] = "m_sleep"
    /\ IsVlcRunning
    /\ lastScan' = "ok"
    /\ procs' # procs \/ current_video' # current_video
       \/ http_failed_count' # http_failed_count

\* C33: http_working turns false exactly in the step that brings
\* http_failed_count to 3, and never turns true again; a switch done over
\* HTTP sets the count to 0; a failed HTTP switch below the threshold leaves
\* current_video and the renderer as they were; every switch made while
\* http_working is false stops the running VLC process (the restart method).
C33_FallbackAtThreeFailures ==
    [][ /\ (http_working /\ ~http_working')
           <=> (http_failed_count = HttpFailLimit - 1
                /\ http_failed_count' = HttpFailLimit)
        /\ (script = "http" /\ pc["main"] = "m_sleep" /\ ~http_working)
           => ~http_working'
        /\ (HttpSwitchTick /\ http_working /\ http_working'
            /\ current_video' # current_video /\ current_video' # None)
           => http_failed_count' = 0
        /\ (HttpSwitchTick /\ http_failed_count' = http_failed_count + 1
            /\ http_failed_count' < HttpFailLimit)
           => /\ current_video' = current_video
              /\ procs' = procs
              /\ http_working'
        /\ (HttpSwitchTick /\ ~http_working'
            /\ current_video' # current_video /\ current_video' # None)
           => /\ ~procs'[vlc_process].alive
              /\ lastStop'.pid = vlc_process ]_vars

\* the third failed HTTP switch in a row was followed by the restart method
C33_Witness ==
    /\ script = "http"
    /\ pc["main"] = "m_sleep"
    /\ ~http_working
    /\ http_failed_count = HttpFailLimit
    /\ Len(procs) = 2
    /\ IsVlcRunning
    /\ procs[vlc_process].path = current_video

\* the step is one 5-second iteration of vlc_robust's loop
RobustTickStep ==
    /\ script = "robust"
    /\ pc["main"] = "m_sleep"
    /\ check_counter' # check_counter

\* C34: every 5-second iteration of vlc_robust performs the window check,
\* whether or not the content poll is due (a minimized window that the check
\* finds is restored in that iteration); an iteration whose window check
\* finds no window or raises, with no content poll due, leaves the renderer
\* processes, the handle and current_video as they were, and so does an
\* iteration with the content poll due that finds VLC running and the newest
\* video of the folder already playing.
C34_WindowCheckLeavesPlayback ==
    [][ RobustTickStep =>
          /\ lastWindow' \in WindowOutcomes
          /\ (window = "minimized" /\ lastWindow' = "found")
             => window' = "normal"
          /\ (lastWindow' \in {"missing", "raise"}
              /\ ~PollDue(check_counter + 1))
             => /\ check_counter' = check_counter + 1
                /\ procs' = procs
                /\ vlc_process' = vlc_process
                /\ current_video' = current_video
                /\ lastStop' = lastStop
                /\ pc' = pc
          /\ (lastWindow' \in {"missing", "raise"}
              /\ PollDue(check_counter + 1)
              /\ IsVlcRunning /\ lastScan' = "ok" /\ pc' = pc
              /\ current_video = GetLatestVideo("ok"))
             => /\ procs' = procs
                /\ vlc_process' = vlc_process
                /\ current_video' = current_video ]_vars

\* an iteration with no content poll due found no window (or the check
\* raised) while VLC plays a video with its window minimized
C34_Witness ==
    /\ script = "robust"
    /\ pc["main"] = "m_sleep"
    /\ check_counter # 0
    /\ lastWindow \in {"missing", "raise"}
    /\ window = "minimized"
    /\ IsVlcRunning
    /\ current_video # None

\* the name lookup or the request to the primary service raised
PrimaryRaised == hostLookup = "raise" \/ responses[1].raised

\* the requests get_external_ip makes when the fallback services up to the
\* k-th service are tried
RequestsUpTo(k) ==
    [i \in 1..(IF hostLookup = "raise" THEN k - 1 ELSE k) |->
        IpServices[IF hostLookup = "raise" THEN i + 1 ELSE i]]

\* the fallback services that answer with HTTP 200
Answering200 ==
    {i \in 2..Len(IpServices) :
        ~responses[i].raised /\ responses[i].status_code = 200}

\* C35: once get_external_ip of tv_player_subfolder_V3_fixed has returned,
\* if the primary request (or the name lookup before it) raised, the fallback
\* services were requested in their listed order up to the first one that
\* answered HTTP 200, whose stripped body is the identity; the result is None
\* exactly when the primary raised and no fallback answered HTTP 200; and
\* after a result of None run() returns with no renderer started.
C35_FallbackGivesIdentity ==
    pc["main"] \in {"ip_done", "exited", "r_subfolders"} =>
        /\ (PrimaryRaised /\ Answering200 # {}) =>
              LET k == CHOOSE i \in Answering200 :
                          \A j \in Answering200 : i <= j IN
              /\ ip_result = Strip(responses[k].text)
              /\ external_ip = ip_result
              /\ requested = RequestsUpTo(k)
        /\ (PrimaryRaised /\ Answering200 = {}) =>
              /\ ip_result = NoIp
              /\ requested = RequestsUpTo(Len(IpServices))
        /\ ip_result = NoIp <=> (PrimaryRaised /\ Answering200 = {})
        /\ ip_result = NoIp =>
              /\ pc["main"] # "r_subfolders"
              /\ procs = << >>

\* the primary request raised, the first fallback answered 503, the second
\* answered 200 and its stripped body became the identity
C35_Witness ==
    /\ pc["main"] = "r_subfolders"
    /\ hostLookup = "ok"
    /\ responses[1].raised
    /\ ~responses[2].raised
    /\ responses[2].status_code = 503
    /\ responses[3] = [raised |-> FALSE, status_code |-> 200,
                       text |-> <<"2", " ">>]
    /\ requested = SubSeq(IpServices, 1, 3)
    /\ external_ip = <<"2">>

\* folder matches the IP: the stripped name equals the IP, contains it, or
\* is contained in it
FolderMatches(f, ip) ==
    \/ Strip(f.name) = ip
    \/ Contains(ip, Strip(f.name))
    \/ Contains(Strip(f.name), ip)

\* the first folder of the list that matches the IP, None without one
FirstMatch(folders, ip) ==
    IF \E i \in 1..Len(folders) : FolderMatches(folders[i], ip)
    THEN folders[CHOOSE i \in 1..Len(folders) :
                    /\ FolderMatches(folders[i], ip)
                    /\ \A j \in 1..(i - 1) : ~FolderMatches(folders[j], ip)]
    ELSE NoFolder

\* C36: for every subfolder list and external IP, find_my_subfolder of
\* tv_player_subfolder_v3 and of tv_player_subfolder_V3_fixed return the same
\* folder, the first folder in list order that matches the IP (None for an
\* empty list and for a list without a match), and that is what run() holds
\* after its call.
C36_SameFolderInBothVariants ==
    /\ FindMySubfolderV3(subfolders, external_ip)
       = FindMySubfolderFixed(subfolders, external_ip)
    /\ FindMySubfolderV3(subfolders, external_ip)
       = FirstMatch(subfolders, external_ip)
    /\ pc["main"] \in {"r_setup", "exited"}
       => my_subfolder = FirstMatch(subfolders, external_ip)

\* tv_player_subfolder_v3 returned the first folder, a partial match, of a
\* list whose second folder is named exactly as the IP
C36_Witness ==
    /\ pc["main"] = "r_setup"
    /\ variant = "smooth"
    /\ Len(subfolders) = 2
    /\ Strip(subfolders[1].name) # external_ip
    /\ Strip(subfolders[2].name) = external_ip
    /\ my_subfolder = subfolders[1]

====
